---- MODULE Spec2Model ----
(***************************************************************************)
(* AmazonStability3Config (litellm/llms/bedrock/image/                     *)
(* amazon_stability3_transformation.py): the Bedrock Stability 3 adapter.  *)
(*                                                                         *)
(* Python values are modelled as follows.                                  *)
(*   str    a sequence of one-character strings, <<"s","d","3">>           *)
(*   None   the one-element sequence NoneValue (no str equals it)          *)
(*   int    an integer                                                     *)
(*   float  an IEEE-754 binary64 value: sign, exponent and the 53 bits of  *)
(*          the significand, with round-to-nearest-even arithmetic         *)
(*   dict   a function from its keys (strings) to its values               *)
(*   object a function from its attribute names to their values            *)
(*   object identity   the dicts and objects the caller and the callee     *)
(*          share live in a heap indexed by reference; an argument or a    *)
(*          return value that is a dict or an object is a reference        *)
(***************************************************************************)
EXTENDS Integers, Sequences, FiniteSets, TLC

VARIABLES
    heap,           \* reference -> dict: the dict objects alive
    model,          \* argument of _is_stability_3_model
    prompt,         \* argument of transform_request_body
    response_dict,  \* argument of transform_response_dict_to_openai_response
    call            \* the last call: its name, the heap before it, what it returned

vars == <<heap, model, prompt, response_dict, call>>

-----------------------------------------------------------------------------
(* Bounds of the model.                                                    *)

MaxDim == 12      \* widths and heights range over -MaxDim..MaxDim
MaxParts == 2     \* a model name is made of at most MaxParts fragments
MaxImages == 2    \* a response holds at most MaxImages images

-----------------------------------------------------------------------------
(* str, None and dict.                                                     *)

NoneValue == <<"None">>

Truthy(s) == s # NoneValue /\ Len(s) > 0

\* sub in s, for str
Contains(s, sub) ==
    \E i \in 1..(Len(s) - Len(sub) + 1) : SubSeq(s, i, i + Len(sub) - 1) = sub

EmptyDict == << >>

\* d.get(k)
DictGet(d, k) == IF k \in DOMAIN d THEN d[k] ELSE NoneValue

DictSet(d, k, v) == [x \in (DOMAIN d) \cup {k} |-> IF x = k THEN v ELSE d[x]]

\* d.pop(k, None)
DictPop(d, k) == [x \in (DOMAIN d) \ {k} |-> d[x]]

\* d.copy()
DictCopy(d) == [x \in DOMAIN d |-> d[x]]

-----------------------------------------------------------------------------
(* _size.split("x") and int(...).                                          *)

RECURSIVE Split(_, _)
Split(s, sep) ==
    IF \A i \in 1..Len(s) : s[i] # sep
    THEN <<s>>
    ELSE LET i == CHOOSE i \in 1..Len(s) :
                      s[i] = sep /\ \A j \in 1..(i - 1) : s[j] # sep
         IN  <<SubSeq(s, 1, i - 1)>> \o Split(SubSeq(s, i + 1, Len(s)), sep)

Digits == <<"0", "1", "2", "3", "4", "5", "6", "7", "8", "9">>

IsDigit(c) == \E d \in 1..Len(Digits) : Digits[d] = c

DigitVal(c) == (CHOOSE d \in 1..Len(Digits) : Digits[d] = c) - 1

RECURSIVE Strip(_)
Strip(s) ==
    IF s = << >> THEN s
    ELSE IF Head(s) = " " THEN Strip(Tail(s))
    ELSE IF s[Len(s)] = " " THEN Strip(SubSeq(s, 1, Len(s) - 1))
    ELSE s

\* the digits of an int literal, after the sign
Unsigned(s) ==
    LET t == Strip(s)
    IN  IF t # << >> /\ t[1] \in {"+", "-"} THEN Tail(t) ELSE t

\* int(s) returns a value (otherwise it raises ValueError)
IntValid(s) ==
    LET b == Unsigned(s)
    IN  /\ b # << >>
        /\ IsDigit(b[1])
        /\ IsDigit(b[Len(b)])
        /\ \A i \in 1..Len(b) :
              \/ IsDigit(b[i])
              \/ (b[i] = "_" /\ i > 1 /\ b[i - 1] # "_")

RECURSIVE DigitsValue(_, _)
DigitsValue(b, acc) ==
    IF b = << >> THEN acc
    ELSE IF Head(b) = "_" THEN DigitsValue(Tail(b), acc)
    ELSE DigitsValue(Tail(b), 10 * acc + DigitVal(Head(b)))

IntValue(s) ==
    LET t == Strip(s)
        v == DigitsValue(Unsigned(s), 0)
    IN  IF t[1] = "-" THEN -v ELSE v

\* width, height = map(int, _size.split("x"))
ParseSize(_size) ==
    LET parts == Split(_size, "x")
    IN  IF Len(parts) = 2 /\ IntValid(parts[1]) /\ IntValid(parts[2])
        THEN [err |-> "none", width |-> IntValue(parts[1]), height |-> IntValue(parts[2])]
        ELSE [err |-> "ValueError", width |-> 0, height |-> 0]

-----------------------------------------------------------------------------
(* float: IEEE-754 binary64.  A nonzero value is                           *)
(* sgn * (man read as a binary integer) * 2^(exp - (MantissaBits - 1)),    *)
(* man having MantissaBits bits, the first of them 1.  The values met here *)
(* are far from the subnormal and the overflow range.                      *)

MantissaBits == 53

Abs(n) == IF n < 0 THEN -n ELSE n

Sign(n) == IF n < 0 THEN -1 ELSE IF n > 0 THEN 1 ELSE 0

RECURSIVE Pow2(_)
Pow2(k) == IF k = 0 THEN 1 ELSE 2 * Pow2(k - 1)

Zeros(n) == [i \in 1..n |-> 0]

FloatZero == [sgn |-> 0, exp |-> 0, man |-> Zeros(MantissaBits)]

\* bits + 1, bits not all ones (most significant bit first)
BitsInc(bits) ==
    LET p == CHOOSE i \in 1..Len(bits) :
                 bits[i] = 0 /\ \A j \in (i + 1)..Len(bits) : bits[j] = 1
    IN  [i \in 1..Len(bits) |-> IF i < p THEN bits[i] ELSE IF i = p THEN 1 ELSE 0]

\* x + y, for x and y of one length and a leading 0 each: digit i takes the
\* carry that a lower digit j generates and the digits between pass on
BitsAdd(x, y) ==
    LET carry(i) == \E j \in (i + 1)..Len(x) :
                        /\ x[j] + y[j] = 2
                        /\ \A k \in (i + 1)..(j - 1) : x[k] + y[k] = 1
    IN  [i \in 1..Len(x) |-> (x[i] + y[i] + (IF carry(i) THEN 1 ELSE 0)) % 2]

\* x - y, for x and y of one length, x >= y
BitsSub(x, y) ==
    LET borrow(i) == \E j \in (i + 1)..Len(x) :
                         /\ x[j] < y[j]
                         /\ \A k \in (i + 1)..(j - 1) : x[k] = y[k]
    IN  [i \in 1..Len(x) |-> (2 + x[i] - y[i] - (IF borrow(i) THEN 1 ELSE 0)) % 2]

\* x < y, for x and y of one length
BitsLess(x, y) ==
    \E i \in 1..Len(x) : x[i] < y[i] /\ \A j \in 1..(i - 1) : x[j] = y[j]

\* bits without its leading zeros
StripZeros(bits) ==
    IF \A i \in 1..Len(bits) : bits[i] = 0 THEN << >>
    ELSE LET p == CHOOSE i \in 1..Len(bits) :
                      bits[i] = 1 /\ \A j \in 1..(i - 1) : bits[j] = 0
         IN  SubSeq(bits, p, Len(bits))

\* Round to nearest, ties to even: the float of sign sgn whose exact value has
\* the binary digits bits (the first one 1, worth 2^exp), followed by further
\* nonzero digits iff sticky.
RoundBits(sgn, exp, bits, sticky) ==
    IF Len(bits) <= MantissaBits
    THEN [sgn |-> sgn, exp |-> exp, man |-> bits \o Zeros(MantissaBits - Len(bits))]
    ELSE LET keep == SubSeq(bits, 1, MantissaBits)
             guard == bits[MantissaBits + 1]
             rest == sticky \/ \E i \in (MantissaBits + 2)..Len(bits) : bits[i] = 1
             up == guard = 1 /\ (rest \/ keep[MantissaBits] = 1)
         IN  IF ~up THEN [sgn |-> sgn, exp |-> exp, man |-> keep]
             ELSE IF \A i \in 1..MantissaBits : keep[i] = 1
             THEN [sgn |-> sgn, exp |-> exp + 1, man |-> <<1>> \o Zeros(MantissaBits - 1)]
             ELSE [sgn |-> sgn, exp |-> exp, man |-> BitsInc(keep)]

\* Long division, ChunkBits binary digits a step.
ChunkBits == 9

\* the n digits of q < 2^n
ToBits(q, n) == [i \in 1..n |-> (q \div Pow2(n - i)) % 2]

\* the first n * ChunkBits binary digits of r / den, for r < 2 * den
RECURSIVE QuotBits(_, _, _)
QuotBits(r, den, n) ==
    IF n = 0 THEN << >>
    ELSE LET scaled == r * Pow2(ChunkBits - 1)
         IN  ToBits(scaled \div den, ChunkBits)
                 \o QuotBits(2 * (scaled % den), den, n - 1)

\* what is left of r after n * ChunkBits digits
RECURSIVE QuotRest(_, _, _)
QuotRest(r, den, n) ==
    IF n = 0 THEN r
    ELSE QuotRest(2 * ((r * Pow2(ChunkBits - 1)) % den), den, n - 1)

\* doublings of b that stay <= a, for a >= b > 0
RECURSIVE ExpUp(_, _)
ExpUp(a, b) == IF 2 * b <= a THEN 1 + ExpUp(a, 2 * b) ELSE 0

\* doublings of a that reach b, for 0 < a < b
RECURSIVE ExpDown(_, _)
ExpDown(a, b) == IF a < b THEN 1 + ExpDown(2 * a, b) ELSE 0

\* a / b for ints a and b, b # 0: the quotient correctly rounded
FloatDiv(a, b) ==
    IF a = 0 THEN FloatZero
    ELSE LET n == Abs(a)
             d == Abs(b)
             e == IF n >= d THEN ExpUp(n, d) ELSE -ExpDown(n, d)
             num == IF e >= 0 THEN n ELSE n * Pow2(-e)
             den == IF e >= 0 THEN d * Pow2(e) ELSE d
             steps == (MantissaBits + ChunkBits) \div ChunkBits
         IN  RoundBits(Sign(a) * Sign(b), e,
                       QuotBits(num, den, steps), QuotRest(num, den, steps) > 0)

FloatNeg(x) == [x EXCEPT !.sgn = -@]

\* abs(x)
FloatAbs(x) == [x EXCEPT !.sgn = Abs(@)]

\* x + y: the exact sum correctly rounded
FloatAdd(x, y) ==
    IF y.sgn = 0 THEN x
    ELSE IF x.sgn = 0 THEN y
    ELSE LET e == IF x.exp < y.exp THEN x.exp ELSE y.exp
             xs == x.man \o Zeros(x.exp - e)
             ys == y.man \o Zeros(y.exp - e)
             len == 1 + (IF Len(xs) > Len(ys) THEN Len(xs) ELSE Len(ys))
             xb == Zeros(len - Len(xs)) \o xs
             yb == Zeros(len - Len(ys)) \o ys
             sgn == IF x.sgn = y.sgn \/ ~BitsLess(xb, yb) THEN x.sgn ELSE y.sgn
             mag == IF x.sgn = y.sgn THEN BitsAdd(xb, yb)
                    ELSE IF BitsLess(xb, yb) THEN BitsSub(yb, xb)
                    ELSE BitsSub(xb, yb)
             bits == StripZeros(mag)
         IN  IF bits = << >> THEN FloatZero
             ELSE RoundBits(sgn, e - (MantissaBits - 1) + (Len(bits) - 1), bits, FALSE)

\* x - y
FloatSub(x, y) == FloatAdd(x, FloatNeg(y))

\* x < y
FloatLess(x, y) ==
    LET magLess(a, b) ==
            IF a.sgn = 0 THEN b.sgn # 0
            ELSE b.sgn # 0 /\ (a.exp < b.exp \/ (a.exp = b.exp /\ BitsLess(a.man, b.man)))
    IN  IF x.sgn # y.sgn THEN x.sgn < y.sgn
        ELSE IF x.sgn < 0 THEN magLess(y, x)
        ELSE magLess(x, y)

-----------------------------------------------------------------------------
(* map_openai_params.                                                      *)

\* aspect_ratios, in the order of the dict literal (a dict keeps it)
aspect_ratios == <<
    [label |-> <<"1", "6", ":", "9">>, ratio |-> FloatDiv(16, 9)],
    [label |-> <<"1", ":", "1">>,      ratio |-> FloatDiv(1, 1)],
    [label |-> <<"2", "1", ":", "9">>, ratio |-> FloatDiv(21, 9)],
    [label |-> <<"2", ":", "3">>,      ratio |-> FloatDiv(2, 3)],
    [label |-> <<"3", ":", "2">>,      ratio |-> FloatDiv(3, 2)],
    [label |-> <<"4", ":", "5">>,      ratio |-> FloatDiv(4, 5)],
    [label |-> <<"5", ":", "4">>,      ratio |-> FloatDiv(5, 4)],
    [label |-> <<"9", ":", "1", "6">>, ratio |-> FloatDiv(9, 16)],
    [label |-> <<"9", ":", "2", "1">>, ratio |-> FloatDiv(9, 21)] >>

\* min(items, key=...): the first item whose key no other item's key is below
RECURSIVE MinIndex(_, _, _)
MinIndex(keys, i, best) ==
    IF i > Len(keys) THEN best
    ELSE MinIndex(keys, i + 1, IF FloatLess(keys[i], keys[best]) THEN i ELSE best)

\* a plausible slip: a later item replaces an equally close one
RECURSIVE MinIndexLast(_, _, _)
MinIndexLast(keys, i, best) ==
    IF i > Len(keys) THEN best
    ELSE MinIndexLast(keys, i + 1, IF FloatLess(keys[best], keys[i]) THEN best ELSE i)

closest_ratio_last(requested_ratio) ==
    LET keys == [i \in 1..Len(aspect_ratios) |->
                    FloatAbs(FloatSub(aspect_ratios[i].ratio, requested_ratio))]
    IN  aspect_ratios[MinIndexLast(keys, 2, 1)]

\* closest_ratio = min(aspect_ratios.items(), key=lambda x: abs(x[1] - requested_ratio))
closest_ratio(requested_ratio) ==
    LET keys == [i \in 1..Len(aspect_ratios) |->
                    FloatAbs(FloatSub(aspect_ratios[i].ratio, requested_ratio))]
    IN  aspect_ratios[MinIndex(keys, 2, 1)]

\* what a call leaves: the heap, the reference returned, the exception raised
Returns(h, ref) == [heap |-> h, ret |-> ref, err |-> "none"]

Raises(h, exc) == [heap |-> h, ret |-> "raised", err |-> exc]

\* a plausible slip: the mapping is done on a copy, and the copy returned
map_openai_params_copy(h, non_default_params, optional_params) ==
    LET _size == DictGet(h[non_default_params], "size")
        size == ParseSize(_size)
        copy == [r \in (DOMAIN h) \cup {"copy"} |->
                    IF r = "copy" THEN DictCopy(h[optional_params]) ELSE h[r]]
    IN  IF _size = NoneValue THEN Returns(copy, "copy")
        ELSE IF size.err # "none" THEN Raises(h, size.err)
        ELSE IF size.height = 0 THEN Raises(h, "ZeroDivisionError")
        ELSE Returns([copy EXCEPT !["copy"] =
                         DictSet(@, "aspect_ratio",
                                 closest_ratio(FloatDiv(size.width, size.height)).label)],
                     "copy")

\* a plausible slip: a default aspect_ratio when no size is given
map_openai_params_default(h, non_default_params, optional_params) ==
    LET _size == DictGet(h[non_default_params], "size")
        size == ParseSize(_size)
    IN  IF _size = NoneValue
        THEN Returns([h EXCEPT ![optional_params] =
                         DictSet(@, "aspect_ratio", aspect_ratios[2].label)],
                     optional_params)
        ELSE IF size.err # "none" THEN Raises(h, size.err)
        ELSE IF size.height = 0 THEN Raises(h, "ZeroDivisionError")
        ELSE Returns([h EXCEPT ![optional_params] =
                         DictSet(@, "aspect_ratio",
                                 closest_ratio(FloatDiv(size.width, size.height)).label)],
                     optional_params)

\* a plausible slip: the supported OpenAI params are passed on as they are
map_openai_params_passes(h, non_default_params, optional_params) ==
    LET _size == DictGet(h[non_default_params], "size")
        size == ParseSize(_size)
        given == h[non_default_params]
        passed == [k \in (DOMAIN h[optional_params]) \cup ((DOMAIN given) \ {"size"}) |->
                      IF k \in DOMAIN given THEN given[k] ELSE h[optional_params][k]]
    IN  IF _size = NoneValue THEN Returns([h EXCEPT ![optional_params] = passed], optional_params)
        ELSE IF size.err # "none" THEN Raises(h, size.err)
        ELSE IF size.height = 0 THEN Raises(h, "ZeroDivisionError")
        ELSE Returns([h EXCEPT ![optional_params] =
                         DictSet(passed, "aspect_ratio",
                                 closest_ratio(FloatDiv(size.width, size.height)).label)],
                     optional_params)

\* map_openai_params(non_default_params, optional_params), both references
map_openai_params(h, non_default_params, optional_params) ==
    LET _size == DictGet(h[non_default_params], "size")
        size == ParseSize(_size)
    IN  IF _size = NoneValue THEN Returns(h, optional_params)
        ELSE IF size.err # "none" THEN Raises(h, size.err)
        ELSE IF size.height = 0 THEN Raises(h, "ZeroDivisionError")
        ELSE Returns([h EXCEPT ![optional_params] =
                         DictSet(@, "aspect_ratio",
                                 closest_ratio(FloatDiv(size.width, size.height)).label)],
                     optional_params)

-----------------------------------------------------------------------------
(* transform_request_body.                                                 *)

\* The fields of AmazonStability3TextToImageRequest: prompt, aspect_ratio and
\* the vendor fields n and response_format.
VendorRequestFields == {"prompt", "aspect_ratio", "n", "response_format"}

\* AmazonStability3TextToImageRequest(**kwargs): a request of these fields, or
\* an UnknownFieldError for a field the schema does not have
AmazonStability3TextToImageRequest(kwargs) ==
    IF DOMAIN kwargs \subseteq VendorRequestFields
    THEN [err |-> "none", value |-> kwargs]
    ELSE [err |-> "UnknownFieldError", value |-> EmptyDict]

\* the heap with a new object under reference ref
Alloc(h, ref, obj) == [r \in (DOMAIN h) \cup {ref} |-> IF r = ref THEN obj ELSE h[r]]

\* the heap once the object under ref is unreachable
Free(h, ref) == [r \in (DOMAIN h) \ {ref} |-> h[r]]

\* the body of transform_request_body, params being the reference it works on
BuildRequest(h, _prompt, params, popped) ==
    LET h2 == [h EXCEPT ![params] = DictPop(@, popped)]
        made == IF "prompt" \in DOMAIN h2[params]
                THEN [err |-> "TypeError", value |-> EmptyDict]
                ELSE AmazonStability3TextToImageRequest(DictSet(h2[params], "prompt", _prompt))
    IN  IF made.err # "none"
        THEN Raises(Free(h2, "params"), made.err)
        ELSE Returns(Alloc(Free(h2, "params"), "data", made.value), "data")

\* a plausible slip: no copy, the pop is done on the caller's mapping
transform_request_body_nocopy(h, _prompt, optional_params) ==
    BuildRequest(h, _prompt, optional_params, "aws_region_name")

\* a plausible slip: another key is removed
transform_request_body_wrongkey(h, _prompt, optional_params) ==
    BuildRequest(Alloc(h, "params", DictCopy(h[optional_params])), _prompt, "params",
                 "aspect_ratio")

\* a plausible slip: the fields the schema does not have are dropped beforehand
transform_request_body_lenient(h, _prompt, optional_params) ==
    BuildRequest(Alloc(h, "params",
                       [k \in (DOMAIN h[optional_params]) \cap (VendorRequestFields \ {"prompt"})
                           |-> h[optional_params][k]]),
                 _prompt, "params", "aws_region_name")

\* transform_request_body(prompt, optional_params), optional_params a reference
transform_request_body(h, _prompt, optional_params) ==
    BuildRequest(Alloc(h, "params", DictCopy(h[optional_params])), _prompt, "params",
                 "aws_region_name")

-----------------------------------------------------------------------------
(* transform_response_dict_to_openai_response.                             *)

\* AmazonStability3TextToImageResponse(**response_dict): a mapping (the code
\* calls .get on it) in which images is optional
AmazonStability3TextToImageResponse(kwargs) == DictCopy(kwargs)

\* Image(b64_json=_img)
Image(_img) == [b64_json |-> _img]

\* the for loop: openai_images.append(Image(b64_json=_img)) for each _img
RECURSIVE AppendImages(_, _)
AppendImages(openai_images, images) ==
    IF images = << >> THEN openai_images
    ELSE AppendImages(Append(openai_images, Image(Head(images))), Tail(images))

\* a plausible slip: the images are added to the data already there
transform_response_extends(h, model_response, _response_dict) ==
    LET stability_3_response == AmazonStability3TextToImageResponse(_response_dict)
        images == IF "images" \in DOMAIN stability_3_response
                  THEN stability_3_response["images"] ELSE << >>
    IN  Returns([h EXCEPT ![model_response] =
                    DictSet(@, "data", AppendImages(h[model_response]["data"], images))],
                model_response)

\* transform_response_dict_to_openai_response(model_response, response_dict),
\* model_response a reference
transform_response_dict_to_openai_response(h, model_response, _response_dict) ==
    LET stability_3_response == AmazonStability3TextToImageResponse(_response_dict)
        images == IF "images" \in DOMAIN stability_3_response
                  THEN stability_3_response["images"] ELSE << >>
    IN  Returns([h EXCEPT ![model_response] =
                    DictSet(@, "data", AppendImages(<< >>, images))],
                model_response)

-----------------------------------------------------------------------------
(* _is_stability_3_model.                                                  *)

Sd3 == <<"s", "d", "3">>

Sd35 == <<"s", "d", "3", ".", "5">>

StableImageUltraV1 ==
    <<"s", "t", "a", "b", "l", "e", "-", "i", "m", "a", "g", "e", "-",
      "u", "l", "t", "r", "a", "-", "v", "1">>

\* s.startswith(sub)
StartsWith(s, sub) == Len(sub) <= Len(s) /\ SubSeq(s, 1, Len(sub)) = sub

\* a plausible slip: the names are matched at the start of the model name
is_stability_3_model_prefix(_model) ==
    IF Truthy(_model)
    THEN IF StartsWith(_model, Sd3) \/ StartsWith(_model, Sd35) THEN TRUE
         ELSE IF StartsWith(_model, StableImageUltraV1) THEN TRUE
         ELSE FALSE
    ELSE FALSE

\* _is_stability_3_model(model)
is_stability_3_model(_model) ==
    IF Truthy(_model)
    THEN IF Contains(_model, Sd3) \/ Contains(_model, Sd35) THEN TRUE
         ELSE IF Contains(_model, StableImageUltraV1) THEN TRUE
         ELSE FALSE
    ELSE FALSE

-----------------------------------------------------------------------------
(* The callers' arguments.                                                 *)

RECURSIVE NatToStr(_)
NatToStr(n) ==
    IF n < 10 THEN <<Digits[n + 1]>>
    ELSE NatToStr(n \div 10) \o <<Digits[(n % 10) + 1]>>

\* str(n)
IntToStr(n) == IF n < 0 THEN <<"-">> \o NatToStr(-n) ELSE NatToStr(n)

\* the size "<w>x<h>"
SizeOf(w, h) == IntToStr(w) \o <<"x">> \o IntToStr(h)

LargeDims == {<<1024, 1024>>, <<1920, 1080>>, <<1000, 500>>}

Dims == ((-MaxDim..MaxDim) \X (-MaxDim..MaxDim)) \cup LargeDims

\* sizes that are not "<int>x<int>" as str(int) writes it
OtherSizes == {
    << >>,
    <<"x">>,
    <<"1", "0", "x">>,
    <<"x", "5">>,
    <<"1", "x", "2", "x", "3">>,
    <<"3", "X", "4">>,
    <<"a", "x", "b">>,
    <<"1", "0", "2", "4">>,
    <<" ", "3", " ", "x", " ", "4", " ">>,
    <<"+", "3", "x", "+", "4">>,
    <<"-", " ", "3", "x", "4">>,
    <<"1", "_", "0", "x", "5">>,
    <<"1", "_", "_", "0", "x", "5">>,
    <<"_", "1", "x", "5">>,
    <<"0", "0", "9", "x", "0", "8">> }

Sizes == {SizeOf(d[1], d[2]) : d \in Dims} \cup OtherSizes

Region == <<"u", "s", "-", "e", "a", "s", "t", "-", "1">>

Url == <<"u", "r", "l">>

B64Json == <<"b", "6", "4", "_", "j", "s", "o", "n">>

Bar == <<"b", "a", "r">>

\* the dicts that hold some of the entries of full
PartialDicts(full) == {[k \in keys |-> full[k]] : keys \in SUBSET DOMAIN full}

\* the mappings of optional parameters a caller passes
OptionalParams ==
    PartialDicts([aws_region_name |-> Region, aspect_ratio |-> aspect_ratios[9].label,
                  n |-> <<"1">>, response_format |-> B64Json, foo |-> Bar])

\* the sizes of the calls that map and then build
FewDims == {<<2, 1>>, <<9, 8>>, <<4, -3>>, <<5, 0>>}

FewSizes == {SizeOf(d[1], d[2]) : d \in FewDims} \cup {<<"1", "0", "x">>, NoneValue}

NonDefaultParams ==
    UNION {PartialDicts([size |-> s, n |-> <<"2">>, response_format |-> Url]) : s \in FewSizes}

Prompts == {<<"a", " ", "c", "a", "t">>, <<"d", "o", "g">>, << >>}

ImageStrings == {<<"Q", "U", "J", "D">>, <<"R", "U", "Z", "H">>, << >>}

ImageLists == UNION {[1..n -> ImageStrings] : n \in 0..MaxImages}

ResponseDicts == {EmptyDict} \cup {[images |-> l] : l \in ImageLists}

\* what model_response.data holds before the call
PriorData == {<< >>, <<Image(<<"R", "U", "Z", "H">>)>>,
              <<Image(<<"Q", "U", "J", "D">>), Image(<<"Q", "U", "J", "D">>)>>,
              <<Image(<< >>), Image(<<"R", "U", "Z", "H">>), Image(<<"Q", "U", "J", "D">>)>>}

Fragments == {
    Sd3, Sd35, StableImageUltraV1,
    <<"S", "D", "3">>,
    <<"s">>, <<"d", "3">>, <<"s", "d">>, <<"3">>,
    <<"s", "t", "a", "b", "l", "e", "-", "i", "m", "a", "g", "e", "-",
      "u", "l", "t", "r", "a", "-", "v">>,
    <<"1">>,
    <<"-", "l", "a", "r", "g", "e">>,
    <<"s", "t", "a", "b", "i", "l", "i", "t", "y", ".">> }

RECURSIVE Concat(_)
Concat(parts) == IF parts = << >> THEN << >> ELSE Head(parts) \o Concat(Tail(parts))

Models == {NoneValue} \cup
          UNION {{Concat(parts) : parts \in [1..n -> Fragments]} : n \in 0..MaxParts}

-----------------------------------------------------------------------------
(* The calls.                                                              *)

\* The last call: the function, the reference passed (the mapping or the
\* object the claims are about), the heap before and after it, the reference
\* returned and the exception raised.
NoCall == [fn |-> "none", arg |-> "none", pre |-> EmptyDict, post |-> EmptyDict,
           ret |-> "none", err |-> "none"]

Called(fn, arg, r) ==
    [fn |-> fn, arg |-> arg, pre |-> heap, post |-> r.heap, ret |-> r.ret, err |-> r.err]

\* the references to a mapping of optional parameters that the caller holds
Mappings ==
    {"optional_params"} \cup
    (IF call.fn = "map_openai_params" /\ call.err = "none" THEN {call.ret} ELSE {})

IsStability3Model ==
    /\ call' = Called("_is_stability_3_model", "model",
                      Returns(heap, IF is_stability_3_model(model) THEN "True" ELSE "False"))
    /\ UNCHANGED <<heap, model, prompt, response_dict>>

MapOpenaiParams ==
    LET r == map_openai_params(heap, "non_default_params", "optional_params")
    IN  /\ heap' = r.heap
        /\ call' = Called("map_openai_params", "optional_params", r)
        /\ UNCHANGED <<model, prompt, response_dict>>

\* the caller sets n in a mapping it holds, after a call of map_openai_params
CallerSets ==
    /\ call.fn = "map_openai_params"
    /\ call.err = "none"
    /\ \E ref \in Mappings, v \in {<<"1">>, <<"3">>} :
          heap' = [heap EXCEPT ![ref] = DictSet(@, "n", v)]
    /\ UNCHANGED <<model, prompt, response_dict, call>>

TransformRequestBody ==
    \E ref \in Mappings :
        LET r == transform_request_body(heap, prompt, ref)
        IN  /\ heap' = r.heap
            /\ call' = Called("transform_request_body", ref, r)
            /\ UNCHANGED <<model, prompt, response_dict>>

TransformResponse ==
    LET r == transform_response_dict_to_openai_response(heap, "model_response", response_dict)
    IN  /\ heap' = r.heap
        /\ call' = Called("transform_response_dict_to_openai_response", "model_response", r)
        /\ UNCHANGED <<model, prompt, response_dict>>

-----------------------------------------------------------------------------
(* The specifications: one for each function, over its arguments, and one  *)
(* for the sequence map, then build.                                       *)

Unused == << >>

\* _is_stability_3_model, over the model names
InitModel ==
    /\ model \in Models
    /\ heap = EmptyDict
    /\ prompt = Unused
    /\ response_dict = EmptyDict
    /\ call = NoCall

SpecModel == InitModel /\ [][IsStability3Model]_vars

\* map_openai_params, over the sizes
InitRatio ==
    /\ \E s \in Sizes, o \in {EmptyDict, [aspect_ratio |-> aspect_ratios[5].label]} :
          heap = [non_default_params |-> [size |-> s], optional_params |-> o]
    /\ model = NoneValue
    /\ prompt = Unused
    /\ response_dict = EmptyDict
    /\ call = NoCall

SpecRatio == InitRatio /\ [][MapOpenaiParams]_vars

\* map_openai_params, the caller's later changes, transform_request_body
InitMap ==
    /\ \E nd \in NonDefaultParams,
          o \in {o \in OptionalParams : "response_format" \notin DOMAIN o} :
          heap = [non_default_params |-> nd, optional_params |-> o]
    /\ model = NoneValue
    /\ prompt = <<"a", " ", "c", "a", "t">>
    /\ response_dict = EmptyDict
    /\ call = NoCall

NextMap == MapOpenaiParams \/ CallerSets \/ TransformRequestBody

SpecMap == InitMap /\ [][NextMap]_vars

\* transform_request_body, over the prompts and the optional parameters
InitBuild ==
    /\ \E o \in OptionalParams : heap = [optional_params |-> o]
    /\ model = NoneValue
    /\ prompt \in Prompts
    /\ response_dict = EmptyDict
    /\ call = NoCall

SpecBuild == InitBuild /\ [][TransformRequestBody]_vars

\* transform_response_dict_to_openai_response, over the responses
InitParse ==
    /\ \E d \in PriorData : heap = [model_response |-> [data |-> d]]
    /\ model = NoneValue
    /\ prompt = Unused
    /\ response_dict \in ResponseDicts
    /\ call = NoCall

SpecParse == InitParse /\ [][TransformResponse]_vars

-----------------------------------------------------------------------------
(* The claims.                                                             *)

\* the 9 labels, in the order the claims enumerate them
EnumeratedLabels == <<
    <<"1", "6", ":", "9">>, <<"1", ":", "1">>, <<"2", "1", ":", "9">>,
    <<"2", ":", "3">>, <<"3", ":", "2">>, <<"4", ":", "5">>, <<"5", ":", "4">>,
    <<"9", ":", "1", "6">>, <<"9", ":", "2", "1">> >>

\* the ratio a label names, <<numerator, denominator>>, read from its text
LabelRatio(label) ==
    LET p == Split(label, ":") IN <<IntValue(p[1]), IntValue(p[2])>>

\* label i is closer to w / h than label j is, in exact arithmetic (h > 0):
\* |a/b - w/h| < |c/d - w/h|  iff  |a*h - w*b| * d < |c*h - w*d| * b
Closer(i, j, w, h) ==
    LET a == LabelRatio(EnumeratedLabels[i])
        c == LabelRatio(EnumeratedLabels[j])
    IN  Abs(a[1] * h - w * a[2]) * c[2] < Abs(c[1] * h - w * c[2]) * a[2]

\* the first of the labels that no label is closer than
NearestLabel(w, h) ==
    LET n == Len(EnumeratedLabels)
        i == CHOOSE i \in 1..n :
                 /\ \A j \in 1..n : ~Closer(j, i, w, h)
                 /\ \A j \in 1..(i - 1) : Closer(i, j, w, h)
    IN  EnumeratedLabels[i]

PositiveDims == {d \in Dims : d[1] > 0 /\ d[2] > 0}

SizeText == [d \in Dims \cup FewDims |-> SizeOf(d[1], d[2])]

Mapped == call.fn = "map_openai_params"

Built == call.fn = "transform_request_body"

Parsed == call.fn = "transform_response_dict_to_openai_response"

\* the size the last call of map_openai_params was given
GivenSize == DictGet(call.pre["non_default_params"], "size")

C2_NonPositiveHeightFails ==
    Mapped =>
        \A d \in Dims :
            (d[2] <= 0 /\ GivenSize = SizeText[d]) =>
                /\ call.err # "none"
                /\ call.ret = "raised"
                /\ call.post = call.pre

\* C3: the request transform_request_body returns never holds aws_region_name,
\* holds the prompt given, and holds every other entry of optional_params.
C3_RequestContents ==
    (Built /\ call.err = "none") =>
        LET request == call.post[call.ret]
            given == call.pre[call.arg]
        IN  /\ "aws_region_name" \notin DOMAIN request
            /\ "prompt" \in DOMAIN request
            /\ request["prompt"] = prompt
            /\ \A k \in (DOMAIN given) \ {"aws_region_name"} :
                  k \in DOMAIN request /\ request[k] = given[k]

C3_Witness ==
    /\ Built
    /\ call.err = "none"
    /\ DOMAIN call.pre[call.arg] = {"aws_region_name", "aspect_ratio", "n", "response_format"}
    /\ DOMAIN call.post[call.ret] = {"prompt", "aspect_ratio", "n", "response_format"}
    /\ prompt = <<"a", " ", "c", "a", "t">>

\* C4: transform_request_body never modifies the mapping the caller passed:
\* after each call, whether it returned or raised, the caller's mapping has
\* the keys and values it had before, aws_region_name among them.
C4_CallerMappingKept ==
    Built =>
        /\ call.post[call.arg] = call.pre[call.arg]
        /\ \A r \in (DOMAIN call.pre) \ {"data"} : r \in DOMAIN call.post /\ call.post[r] = call.pre[r]

C4_Witness ==
    /\ Built
    /\ call.err = "none"
    /\ "aws_region_name" \in DOMAIN call.pre[call.arg]
    /\ "aws_region_name" \in DOMAIN heap[call.arg]
    /\ "aws_region_name" \notin DOMAIN heap[call.ret]
    /\ call.pre # NoCall.pre
    /\ "data" \in DOMAIN call.pre

\* C5: map_openai_params updates the caller's mapping in place and returns
\* that same mapping: the reference returned is the one passed, the caller's
\* mapping holds the aspect_ratio selected, and a later change through either
\* reference is seen through the other.
C5_InPlace ==
    (Mapped /\ call.err = "none") =>
        /\ call.ret = call.arg
        /\ heap[call.ret] = heap[call.arg]
        /\ \A d \in FewDims :
              (d[1] > 0 /\ d[2] > 0 /\ GivenSize = SizeText[d]) =>
                  /\ "aspect_ratio" \in DOMAIN heap[call.arg]
                  /\ heap[call.arg]["aspect_ratio"] = NearestLabel(d[1], d[2])

\* after a call with size 2x1 on a mapping without aspect_ratio, and a later
\* change of n by the caller
C5_Witness ==
    /\ Mapped
    /\ call.err = "none"
    /\ GivenSize = SizeOf(2, 1)
    /\ "aspect_ratio" \notin DOMAIN call.pre[call.arg]
    /\ heap[call.arg] # call.post[call.arg]
    /\ heap[call.ret]["aspect_ratio"] = <<"1", "6", ":", "9">>
    /\ heap[call.ret]["n"] = <<"3">>

C7_DataReplaced ==
    Parsed =>
        LET images == IF "images" \in DOMAIN response_dict
                      THEN response_dict["images"] ELSE << >>
            data == call.post[call.arg]["data"]
        IN  /\ call.err = "none"
            /\ call.ret = call.arg
            /\ Len(data) = Len(images)
            /\ \A i \in 1..Len(images) : data[i] = [b64_json |-> images[i]]

C7_Witness ==
    /\ Parsed
    /\ Len(call.pre[call.arg]["data"]) = 3
    /\ response_dict = [images |-> << <<"Q", "U", "J", "D">>, <<"R", "U", "Z", "H">> >>]
    /\ heap[call.ret]["data"] =
           << [b64_json |-> <<"Q", "U", "J", "D">>], [b64_json |-> <<"R", "U", "Z", "H">>] >>

\* C8: with no size key in non_default_params, map_openai_params returns
\* optional_params with the keys and values it was given: no aspect_ratio is
\* added, and an aspect_ratio already there keeps its value.
C8_NoSizeNoChange ==
    (Mapped /\ "size" \notin DOMAIN call.pre["non_default_params"]) =>
        /\ call.err = "none"
        /\ call.ret = call.arg
        /\ call.post[call.ret] = call.pre[call.arg]

C8_Witness ==
    /\ Mapped
    /\ DOMAIN call.pre["non_default_params"] = {"n", "response_format"}
    /\ call.pre[call.arg] = [aspect_ratio |-> <<"9", ":", "2", "1">>, foo |-> Bar]
    /\ call.post[call.ret] = [aspect_ratio |-> <<"9", ":", "2", "1">>, foo |-> Bar]

\* C9: _is_stability_3_model returns True exactly when the model is a non-empty
\* string that contains "sd3" or "stable-image-ultra-v1", and False otherwise,
\* for the empty string and for None too; it raises nothing.
C9_ModelMatch ==
    call.fn = "_is_stability_3_model" =>
        /\ call.err = "none"
        /\ call.ret \in {"True", "False"}
        /\ call.ret = "True" <=>
              /\ model # NoneValue
              /\ model # << >>
              /\ \/ \E i \in 1..Len(model) :
                       i + 2 <= Len(model) /\ <<model[i], model[i + 1], model[i + 2]>> = Sd3
                 \/ \E i \in 1..Len(model) :
                       /\ i + Len(StableImageUltraV1) - 1 <= Len(model)
                       /\ \A j \in 1..Len(StableImageUltraV1) :
                             model[i + j - 1] = StableImageUltraV1[j]

\* "stability.sd3.5" holds sd3, and not at its start
C9_Witness ==
    /\ call.fn = "_is_stability_3_model"
    /\ model = <<"s", "t", "a", "b", "i", "l", "i", "t", "y", ".">> \o Sd35
    /\ call.ret = "True"

\* C10: a successful map_openai_params adds or changes no key of
\* optional_params but aspect_ratio and leaves non_default_params as it was, so
\* that n, response_format and size are never copied; and the request built
\* afterwards holds n or response_format only when the mapping passed held it.
C10_OnlyAspectRatio ==
    /\ (Mapped /\ call.err = "none") =>
          LET before == call.pre[call.arg]
              after == call.post[call.ret]
          IN  /\ \A k \in ((DOMAIN before) \cup (DOMAIN after)) \ {"aspect_ratio"} :
                    k \in DOMAIN before /\ k \in DOMAIN after /\ after[k] = before[k]
              /\ call.post["non_default_params"] = call.pre["non_default_params"]
    /\ (Built /\ call.err = "none") =>
          \A k \in {"n", "response_format", "size"} \cap DOMAIN call.post[call.ret] :
              k \in DOMAIN call.pre[call.arg] /\ call.post[call.ret][k] = call.pre[call.arg][k]

\* map with size 2x1, n and response_format, then build: the request holds
\* the aspect_ratio and neither n nor response_format
C10_Witness ==
    /\ Built
    /\ call.err = "none"
    /\ heap["non_default_params"] = [size |-> SizeOf(2, 1), n |-> <<"2">>, response_format |-> Url]
    /\ DOMAIN heap[call.ret] = {"prompt", "aspect_ratio"}
    /\ heap[call.ret]["aspect_ratio"] = <<"1", "6", ":", "9">>

====
